---------------------------- MODULE Spec2Model ----------------------------
(***************************************************************************)
(* Model of flask_csv_api/app.py: the accident-dataset API.                *)
(*                                                                         *)
(* The process holds one global, ACCIDENTS_DF, filled by the               *)
(* before_first_request hook load_dataset_on_startup and read by the six   *)
(* /accidents/... view functions.  Requests are served by worker threads;  *)
(* each request first passes the framework's first-request trigger (the    *)
(* hook runs under the application's before-request lock, and the          *)
(* "got first request" flag is set only when the hook returns normally),   *)
(* then the view function runs.  abort(code) raises an HTTPException,      *)
(* which is an Exception.                                                  *)
(*                                                                         *)
(* A DataFrame is columnar: a function from column name to a sequence of   *)
(* values.  A CSV file is row-oriented text: a sequence of rows of cells.  *)
(***************************************************************************)
EXTENDS Integers, Sequences, FiniteSets, TLC

(***************************************************************************)
(* Bounds of the model.                                                    *)
(***************************************************************************)
MaxRows == 3            \* rows of the enumerated CSV files (data specification)
MaxRowsServe == 2       \* rows of the CSV files of the concurrent specification
MaxArg == 2             \* largest small number_of_rows / page_number argument
MaxArgServe == 1        \* the same, in the concurrent specification
MaxExtra == 1           \* rows beyond the sample size in the long CSV files
MaxLoads == 2           \* the load-attempt counter saturates here

\* app.py:119  ACCIDENTS_DF.head(10)
SampleSize == 10

Threads == {"t1", "t2"}
MainThread == "t1"
NoThread == "none"

Min(a, b) == IF a < b THEN a ELSE b
Max(a, b) == IF a < b THEN b ELSE a

(***************************************************************************)
(* Values.  A CSV cell is a piece of text with a lexical shape:             *)
(*   "int" (a numeral, n), "date" (an ISO date, n = yyyymmdd),             *)
(*   "text" (anything else, s), "empty" (a missing field).                 *)
(* A DataFrame value has a kind: "num" (int64/float64), "str" (a Python    *)
(* string, which keeps the lexical shape of its text), "NaN", "None",      *)
(* "Timestamp" (n = calendar year, the only component the code reads) and  *)
(* "NaT".                                                                  *)
(***************************************************************************)
Cell(text, n, s) == [text |-> text, n |-> n, s |-> s]
IntCell(n) == Cell("int", n, "")
DateCell(n) == Cell("date", n, "")
TextCell(s) == Cell("text", 0, s)
EmptyCell == Cell("empty", 0, "")

Val(kind, text, n, s) == [kind |-> kind, text |-> text, n |-> n, s |-> s]
NaN == Val("NaN", "", 0, "")
PyNone == Val("None", "", 0, "")
NaT == Val("NaT", "", 0, "")
Num(n) == Val("num", "", n, "")
Timestamp(year) == Val("Timestamp", "", year, "")

IsNull(v) == v.kind \in {"NaN", "None", "NaT"}

\* The header of US_Accidents_March23.csv, reduced to the columns the code names.
Columns == <<"ID", "State", "Start_Time">>
ColSet == {Columns[i] : i \in 1..Len(Columns)}

DataFrame(data) == [tag |-> "df", data |-> data]
\* ACCIDENTS_DF = None
None == [tag |-> "None", data |-> [c \in ColSet |-> <<>>]]

\* len(df)
NRows(df) == Len(df.data["ID"])

(***************************************************************************)
(* pd.read_csv: a column whose every non-empty field is a numeral becomes  *)
(* a numeric column; any other column is an object column of strings, in   *)
(* which a numeral stays the text it was.  Empty fields become NaN in      *)
(* both.  (The inference is that of a file parsed as one chunk.)           *)
(***************************************************************************)
IsNumericColumn(rows, c) == \A i \in 1..Len(rows) : rows[i][c].text \in {"int", "empty"}

ReadCell(cell, numeric) ==
    IF cell.text = "empty" THEN NaN
    ELSE IF numeric THEN Num(cell.n)
    ELSE Val("str", cell.text, cell.n, cell.s)

read_csv(rows) ==
    DataFrame([c \in ColSet |->
        [i \in 1..Len(rows) |-> ReadCell(rows[i][c], IsNumericColumn(rows, c))]])

\* ACCIDENTS_DF.where(pd.notnull(ACCIDENTS_DF), None)
where_notnull(df) ==
    DataFrame([c \in ColSet |->
        [i \in 1..NRows(df) |-> IF IsNull(df.data[c][i]) THEN PyNone ELSE df.data[c][i]]])

\* df.head(n); head_short is the variant that stops one row early
head_short(df, n) ==
    DataFrame([c \in ColSet |-> SubSeq(df.data[c], 1, Min(Max(n - 1, 0), NRows(df)))])

head(df, n) ==
    DataFrame([c \in ColSet |-> SubSeq(df.data[c], 1, Min(n, NRows(df)))])

\* df.iloc[start:end] for non-negative start and end (Python slice clamping)
iloc(df, start, end) ==
    DataFrame([c \in ColSet |->
        SubSeq(df.data[c], Min(start, NRows(df)) + 1, Min(end, NRows(df)))])

\* df.to_dict(orient='records'): one dict per row, column name -> value
to_dict_records(df) ==
    [i \in 1..NRows(df) |-> [c \in ColSet |-> df.data[c][i]]]

\* df.columns.tolist()
columns_tolist(df) == Columns


(***************************************************************************)
(* pd.to_datetime(series, errors='coerce') followed by .dt.year.           *)
(* No unit is passed, so a number is read as nanoseconds since 1970-01-01. *)
(* A string is parsed as a calendar date; a string that is no date (text,  *)
(* or the text of a numeral) and a null are coerced to NaT.                *)
(***************************************************************************)
IsLeap(y) == (y % 4 = 0 /\ y % 100 # 0) \/ y % 400 = 0
DaysIn(y) == IF IsLeap(y) THEN 366 ELSE 365

RECURSIVE YearFromDays(_, _)
YearFromDays(y, days) ==
    IF days < DaysIn(y) THEN y ELSE YearFromDays(y + 1, days - DaysIn(y))

\* the calendar year of an instant given as seconds since the epoch
YearOfEpochSeconds(secs) == YearFromDays(1970, secs \div 86400)

\* the calendar year of an instant given as nanoseconds since the epoch
YearOfEpochNanos(nanos) == YearOfEpochSeconds(nanos \div 1000000000)

to_datetime(v) ==
    IF v.kind = "num" THEN Timestamp(YearOfEpochNanos(v.n))
    ELSE IF v.kind = "str" /\ v.text = "date" THEN Timestamp(v.n \div 10000)
    ELSE NaT

\* .dt.year: the year as a number, NaN for NaT
dt_year(ts) == IF ts.kind = "Timestamp" THEN Num(ts.n) ELSE NaN

\* series.dropna()
RECURSIVE dropna(_)
dropna(series) ==
    IF series = <<>> THEN <<>>
    ELSE IF IsNull(Head(series)) THEN dropna(Tail(series))
    ELSE <<Head(series)>> \o dropna(Tail(series))

(***************************************************************************)
(* series.value_counts().reset_index(): one row per distinct non-null      *)
(* value, most frequent first; values of equal count keep the order of     *)
(* their first occurrence.                                                 *)
(***************************************************************************)
RECURSIVE Distinct(_, _)
Distinct(series, seen) ==
    IF series = <<>> THEN <<>>
    ELSE IF Head(series) \in seen THEN Distinct(Tail(series), seen)
    ELSE <<Head(series)>> \o Distinct(Tail(series), seen \cup {Head(series)})

Occurrences(series, v) == Cardinality({i \in 1..Len(series) : series[i] = v})

\* insert row r into the sorted rows, behind every row of the same or a larger count
RECURSIVE InsertByCountDesc(_, _)
InsertByCountDesc(rows, r) ==
    IF rows = <<>> THEN <<r>>
    ELSE IF Head(rows).count >= r.count
         THEN <<Head(rows)>> \o InsertByCountDesc(Tail(rows), r)
         ELSE <<r>> \o rows

RECURSIVE SortByCountDesc(_)
SortByCountDesc(rows) ==
    IF rows = <<>> THEN <<>>
    ELSE InsertByCountDesc(SortByCountDesc(SubSeq(rows, 1, Len(rows) - 1)), rows[Len(rows)])

value_counts(series) ==
    LET kept == dropna(series)
        keys == Distinct(kept, {})
    IN  SortByCountDesc([i \in 1..Len(keys) |->
            [key |-> keys[i], count |-> Occurrences(kept, keys[i])]])

\* yearly.sort_values('year'): ascending by key
RECURSIVE InsertByKeyAsc(_, _)
InsertByKeyAsc(rows, r) ==
    IF rows = <<>> THEN <<r>>
    ELSE IF Head(rows).key.n <= r.key.n
         THEN <<Head(rows)>> \o InsertByKeyAsc(Tail(rows), r)
         ELSE <<r>> \o rows

RECURSIVE SortByKeyAsc(_)
SortByKeyAsc(rows) ==
    IF rows = <<>> THEN <<>>
    ELSE InsertByKeyAsc(SortByKeyAsc(SubSeq(rows, 1, Len(rows) - 1)), rows[Len(rows)])

\* sort_values_unsorted is the variant that leaves the value_counts order
sort_values_unsorted(rows) == rows
sort_values(rows) == SortByKeyAsc(rows)

(***************************************************************************)
(* The bodies of the view functions, as functions of the DataFrame.        *)
(***************************************************************************)
\* app.py:119-120
sample_records(df) == to_dict_records(head(df, SampleSize))

\* app.py:144-145; start_index_zero_based is the variant with 0-based page numbers
start_index_zero_based(number_of_rows, page_number) == page_number * number_of_rows
start_index(number_of_rows, page_number) == (page_number - 1) * number_of_rows
end_index(number_of_rows, page_number) ==
    start_index(number_of_rows, page_number) + number_of_rows

\* app.py:148-150
page_records(df, number_of_rows, page_number) ==
    to_dict_records(iloc(df, start_index(number_of_rows, page_number),
                             end_index(number_of_rows, page_number)))

\* app.py:165-169
state_count_records(df) ==
    LET state_counts == value_counts(df.data["State"])
    IN  [i \in 1..Len(state_counts) |->
            [State |-> state_counts[i].key, AccidentCount |-> state_counts[i].count]]

\* app.py:188-189: the Year column of df_copy
year_column(df) ==
    [i \in 1..NRows(df) |-> dt_year(to_datetime(df.data["Start_Time"][i]))]

\* app.py:190-193
yearly_records(df) ==
    LET yearly == sort_values(value_counts(year_column(df)))
    IN  [i \in 1..Len(yearly) |-> [year |-> yearly[i].key.n, count |-> yearly[i].count]]


(***************************************************************************)
(* Exceptions and responses.  abort(code) raises HTTPException(code);      *)
(* HTTPException derives from Exception, so "except Exception" catches it. *)
(* An exception that leaves a view or the hook becomes the response: an    *)
(* HTTPException its own code, anything else 500.                          *)
(***************************************************************************)
NoException == [class |-> "none", code |-> 0]
HTTPException(code) == [class |-> "HTTPException", code |-> code]
AttributeError == [class |-> "AttributeError", code |-> 0]
MemoryError == [class |-> "MemoryError", code |-> 0]

\* isinstance(e, Exception)
IsException(e) == e.class \in {"HTTPException", "AttributeError", "MemoryError"}

\* the status the framework answers with when e leaves the request's code
StatusOfException(e) == IF e.class = "HTTPException" THEN e.code ELSE 500

\* try: ... except Exception as e: abort(500, ...)
ExceptAbort500(e) == IF IsException(e) THEN HTTPException(500) ELSE e

NotRead == [tag |-> "unread", data |-> [c \in ColSet |-> <<>>]]

Response(status, by, body, saw) ==
    [status |-> status, by |-> by, body |-> body, saw |-> saw]
NoResponse == Response(0, "none", <<>>, NotRead)

\* the response of a view that raised e (left uncaught) or returned jsonify(body)
ViewResponse(e, body, saw) ==
    IF e = NoException THEN Response(200, "view", body, saw)
    ELSE Response(StatusOfException(e), "view", <<>>, saw)

\* what using ACCIDENTS_DF raises when it is None
UseOf(df) == IF df.tag = "None" THEN AttributeError ELSE NoException

\* app.py:115-121 (no try block)
sample_response(df) ==
    ViewResponse(UseOf(df), IF df.tag = "None" THEN <<>> ELSE sample_records(df), df)

\* app.py:124-130 (no try block)
columns_response(df) ==
    ViewResponse(UseOf(df), IF df.tag = "None" THEN <<>> ELSE columns_tolist(df), df)

\* app.py:138-155
data_response(df, number_of_rows, page_number) ==
    IF number_of_rows <= 0 \/ page_number <= 0
    THEN ViewResponse(ExceptAbort500(HTTPException(400)), <<>>, NotRead)
    ELSE ViewResponse(ExceptAbort500(UseOf(df)),
                      IF df.tag = "None" THEN <<>>
                      ELSE page_records(df, number_of_rows, page_number), df)

\* app.py:163-173
count_by_state_response(df) ==
    ViewResponse(ExceptAbort500(UseOf(df)),
                 IF df.tag = "None" THEN <<>> ELSE state_count_records(df), df)

\* app.py:177-181
total_records_response(df) ==
    ViewResponse(ExceptAbort500(UseOf(df)),
                 IF df.tag = "None" THEN <<>> ELSE <<[total |-> NRows(df)]>>, df)

\* app.py:185-196
yearly_stats_response(df) ==
    ViewResponse(ExceptAbort500(UseOf(df)),
                 IF df.tag = "None" THEN <<>> ELSE yearly_records(df), df)

(***************************************************************************)
(* Requests: the URL rules of the six views.  The <int:...> converters     *)
(* accept only unsigned numerals, so the arguments are naturals.           *)
(***************************************************************************)
Request(op, number_of_rows, page_number) ==
    [op |-> op, number_of_rows |-> number_of_rows, page_number |-> page_number]
NoRequest == Request("none", 0, 0)

PlainOps == {"sample", "columns", "count_by_state", "total_records", "yearly_stats"}

RequestsOver(rowArgs, pageArgs) ==
    {Request(op, 0, 0) : op \in PlainOps}
        \cup {Request("data", n, p) : n \in rowArgs, p \in pageArgs}

ServeRequests == RequestsOver(0..MaxArgServe, 0..MaxArgServe)
DataRequests ==
    RequestsOver((0..MaxArg) \cup {SampleSize, SampleSize + MaxExtra}, 0..MaxArg)

(***************************************************************************)
(* CSV files.                                                              *)
(***************************************************************************)
CsvRow(i, st, tm) == [ID |-> IntCell(i), State |-> st, Start_Time |-> tm]

\* <<State, Start_Time>> of the rows the files are built from
RowPool == <<
    <<TextCell("CA"), DateCell(20210105)>>,
    <<TextCell("CA"), DateCell(20210205)>>,
    <<TextCell("TX"), IntCell(1609459200)>>,
    <<EmptyCell,      TextCell("unknown")>>,
    <<TextCell("TX"), DateCell(20200630)>>,
    <<TextCell("CA"), EmptyCell>> >>

ServePool == <<4, 1>>

\* the file whose i-th row is row picks[i] of the pool
CsvOf(picks) ==
    [i \in 1..Len(picks) |-> CsvRow(i, RowPool[picks[i]][1], RowPool[picks[i]][2])]

Picks(pool, maxLen) == UNION {[1..n -> pool] : n \in 0..maxLen}

\* the table of the specification's scenario
ScenarioCsv == CsvOf(<<1, 2, 3>>)

\* a file of n rows, longer than the sample
LongCsv(n) == CsvOf([i \in 1..n |-> ((i * 5) % Len(RowPool)) + 1])

File(exists, rows) == [exists |-> exists, rows |-> rows]
MissingFile == File(FALSE, <<>>)

ServeFiles ==
    {MissingFile} \cup
    {File(TRUE, CsvOf([i \in 1..Len(p) |-> ServePool[p[i]]])) :
        p \in Picks(1..Len(ServePool), MaxRowsServe)}

DataFiles ==
    {File(TRUE, CsvOf(p)) : p \in Picks(1..Len(RowPool), MaxRows)}
        \cup {File(TRUE, ScenarioCsv)}
        \cup {File(TRUE, LongCsv(n)) : n \in (SampleSize - 1)..(SampleSize + MaxExtra)}


(***************************************************************************)
(* State.                                                                  *)
(***************************************************************************)
VARIABLES
    csv,                \* US_Accidents_March23.csv next to app.py
    ACCIDENTS_DF,       \* the global DataFrame, or None
    got_first_request,  \* the framework's flag: the hook has returned normally
    lock,               \* holder of the framework's before-request lock
    pc,                 \* where each worker thread is in serving its request
    req,                \* the request each worker thread is serving
    resp,               \* the response each worker thread has produced
    loadAttempts        \* how often load_dataset_on_startup was entered

vars == <<csv, ACCIDENTS_DF, got_first_request, lock, pc, req, resp, loadAttempts>>

InitWith(files) ==
    /\ csv \in files
    /\ ACCIDENTS_DF = None
    /\ got_first_request = FALSE
    /\ lock = NoThread
    /\ pc = [t \in Threads |-> "idle"]
    /\ req = [t \in Threads |-> NoRequest]
    /\ resp = [t \in Threads |-> NoResponse]
    /\ loadAttempts = 0

Init == InitWith(ServeFiles)
InitData == InitWith(DataFiles)

(***************************************************************************)
(* The framework's dispatch of one request.                                *)
(***************************************************************************)
\* a request arrives and is routed
Receive(t, requests) ==
    /\ pc[t] = "idle"
    /\ \E r \in requests : req' = [req EXCEPT ![t] = r]
    /\ pc' = [pc EXCEPT ![t] = "dispatch"]
    /\ UNCHANGED <<csv, ACCIDENTS_DF, got_first_request, lock, resp, loadAttempts>>

\* the before_first_request functions are still to run (EveryRequestPending is
\* the variant of a hook that runs before every request)
EveryRequestPending == TRUE
FirstRequestPending == ~got_first_request

\* the before-request lock can be taken (LockIgnored is the variant without
\* mutual exclusion)
LockIgnored == TRUE
LockFree == lock = NoThread

\* the check of the flag made without the lock
CheckFirstRequest(t) ==
    /\ pc[t] = "dispatch"
    /\ pc' = [pc EXCEPT ![t] = IF FirstRequestPending THEN "acquire" ELSE "view"]
    /\ UNCHANGED <<csv, ACCIDENTS_DF, got_first_request, lock, req, resp, loadAttempts>>

\* the lock is taken and the flag checked again; the hook is entered if it is unset
AcquireLock(t) ==
    /\ pc[t] = "acquire"
    /\ LockFree
    /\ IF FirstRequestPending
       THEN /\ lock' = t
            /\ pc' = [pc EXCEPT ![t] = "hook_exists"]
            /\ loadAttempts' = Min(loadAttempts + 1, MaxLoads)
       ELSE /\ pc' = [pc EXCEPT ![t] = "view"]
            /\ UNCHANGED <<lock, loadAttempts>>
    /\ UNCHANGED <<csv, ACCIDENTS_DF, got_first_request, req, resp>>

\* an exception leaves the hook: the lock is released, the flag stays unset, and
\* the request is answered with the exception
HookRaises(t, e) ==
    /\ lock' = IF lock = t THEN NoThread ELSE lock
    /\ resp' = [resp EXCEPT ![t] = Response(StatusOfException(e), "hook", <<>>, NotRead)]
    /\ pc' = [pc EXCEPT ![t] = "done"]

\* the hook has returned: the flag is set and the lock released
FirstRequestDone(t) ==
    /\ pc[t] = "hook_return"
    /\ got_first_request' = TRUE
    /\ lock' = IF lock = t THEN NoThread ELSE lock
    /\ pc' = [pc EXCEPT ![t] = "view"]
    /\ UNCHANGED <<csv, ACCIDENTS_DF, req, resp, loadAttempts>>

(***************************************************************************)
(* load_dataset_on_startup, statement by statement.                        *)
(***************************************************************************)
\* app.py:55-56
load_exists(t) ==
    /\ pc[t] = "hook_exists"
    /\ IF csv.exists
       THEN /\ pc' = [pc EXCEPT ![t] = "hook_read"]
            /\ UNCHANGED <<lock, resp>>
       ELSE HookRaises(t, HTTPException(500))
    /\ UNCHANGED <<csv, ACCIDENTS_DF, got_first_request, req, loadAttempts>>

\* app.py:61
load_read_csv(t) ==
    /\ pc[t] = "hook_read"
    /\ ACCIDENTS_DF' = read_csv(csv.rows)
    /\ pc' = [pc EXCEPT ![t] = "hook_where"]
    /\ UNCHANGED <<csv, got_first_request, lock, req, resp, loadAttempts>>

\* app.py:61 raises (the file cannot be read, memory runs out), app.py:67-68
load_read_csv_raises(t) ==
    /\ pc[t] = "hook_read"
    /\ HookRaises(t, ExceptAbort500(MemoryError))
    /\ UNCHANGED <<csv, ACCIDENTS_DF, got_first_request, req, loadAttempts>>

\* app.py:64
load_where(t) ==
    /\ pc[t] = "hook_where"
    /\ ACCIDENTS_DF' = where_notnull(ACCIDENTS_DF)
    /\ pc' = [pc EXCEPT ![t] = "hook_return"]
    /\ UNCHANGED <<csv, got_first_request, lock, req, resp, loadAttempts>>

\* app.py:64 raises (memory runs out building the copy), app.py:67-68
load_where_raises(t) ==
    /\ pc[t] = "hook_where"
    /\ HookRaises(t, ExceptAbort500(MemoryError))
    /\ UNCHANGED <<csv, ACCIDENTS_DF, got_first_request, req, loadAttempts>>

(***************************************************************************)
(* The view functions.  Each reads ACCIDENTS_DF and leaves it alone.       *)
(***************************************************************************)
View(t, op, response) ==
    /\ pc[t] = "view"
    /\ req[t].op = op
    /\ resp' = [resp EXCEPT ![t] = response]
    /\ pc' = [pc EXCEPT ![t] = "done"]
    /\ UNCHANGED <<csv, ACCIDENTS_DF, got_first_request, lock, req, loadAttempts>>

get_accidents_sample(t) == View(t, "sample", sample_response(ACCIDENTS_DF))

get_accident_columns(t) == View(t, "columns", columns_response(ACCIDENTS_DF))

get_accident_data(t) ==
    View(t, "data", data_response(ACCIDENTS_DF, req[t].number_of_rows, req[t].page_number))

get_accident_count_by_state(t) ==
    View(t, "count_by_state", count_by_state_response(ACCIDENTS_DF))

get_total_records(t) == View(t, "total_records", total_records_response(ACCIDENTS_DF))

get_yearly_stats(t) == View(t, "yearly_stats", yearly_stats_response(ACCIDENTS_DF))

\* the response is sent; the worker takes the next request
Respond(t) ==
    /\ pc[t] = "done"
    /\ pc' = [pc EXCEPT ![t] = "idle"]
    /\ req' = [req EXCEPT ![t] = NoRequest]
    /\ resp' = [resp EXCEPT ![t] = NoResponse]
    /\ UNCHANGED <<csv, ACCIDENTS_DF, got_first_request, lock, loadAttempts>>

Serve(t) ==
    \/ CheckFirstRequest(t)
    \/ AcquireLock(t)
    \/ load_exists(t)
    \/ load_read_csv(t)
    \/ load_read_csv_raises(t)
    \/ load_where(t)
    \/ load_where_raises(t)
    \/ FirstRequestDone(t)
    \/ get_accidents_sample(t)
    \/ get_accident_columns(t)
    \/ get_accident_data(t)
    \/ get_accident_count_by_state(t)
    \/ get_total_records(t)
    \/ get_yearly_stats(t)
    \/ Respond(t)

\* concurrent worker threads
Next == \E t \in Threads : Receive(t, ServeRequests) \/ Serve(t)

\* one worker thread, the larger files and arguments
NextData == Receive(MainThread, DataRequests) \/ Serve(MainThread)

Spec == Init /\ [][Next]_vars
SpecData == InitData /\ [][NextData]_vars


(***************************************************************************)
(* Properties.                                                             *)
(***************************************************************************)
\* what read_csv returns for the file, and the table a complete load publishes
RawTable == read_csv(csv.rows)
FinalTable == where_notnull(RawTable)

Answered(t) == pc[t] = "done"
AnsweredByView(t, op) == Answered(t) /\ req[t].op = op /\ resp[t].by = "view"
ValidPage(r) == r.number_of_rows > 0 /\ r.page_number > 0
ValidRequest(r) == r.op = "data" => ValidPage(r)

\* C1: a page request with number_of_rows <= 0 or page_number <= 0 that reaches
\* get_accident_data is answered 400 (InvalidArgument), and the table is not read.
C1_InvalidPageIs400 ==
    \A t \in Threads :
        (AnsweredByView(t, "data") /\ ~ValidPage(req[t]))
            => (resp[t].status = 400 /\ resp[t].saw = NotRead)

\* C2: while the dataset was never loaded, every query with valid arguments is
\* answered with the not-ready signal (503), without the table being read.
C2_EmptyGateIsNotReady ==
    \A t \in Threads :
        (Answered(t) /\ ~got_first_request /\ ValidRequest(req[t]))
            => (resp[t].status = 503 /\ resp[t].saw = NotRead)

\* C3: on a loaded table of N rows, a page request with positive arguments is
\* answered 200 with exactly the rows start+1 .. min(start+number_of_rows, N)
\* (1-based) in table order, start = (page_number-1)*number_of_rows; with none when
\* start >= N.
C3_PageIsTheSlice ==
    \A t \in Threads :
        (AnsweredByView(t, "data") /\ ValidPage(req[t]))
            => LET df == resp[t].saw
                   N == NRows(df)
                   start == (req[t].page_number - 1) * req[t].number_of_rows
                   cnt == Max(0, Min(start + req[t].number_of_rows, N) - start)
               IN  /\ resp[t].status = 200
                   /\ df.tag = "df"
                   /\ Len(resp[t].body) = cnt
                   /\ \A k \in 1..cnt : \A c \in ColSet :
                          resp[t].body[k][c] = df.data[c][start + k]

\* a page that is cut short by the end of the table has been answered
C3_Witness ==
    \E t \in Threads :
        /\ AnsweredByView(t, "data") /\ ValidPage(req[t])
        /\ req[t].page_number > 1
        /\ Len(resp[t].body) > 0
        /\ Len(resp[t].body) < req[t].number_of_rows

\* C4 as stated: the first page of rowsPerPage <= RowCount rows is the sample.
C4_PageOneIsSample ==
    \A t \in Threads :
        (/\ AnsweredByView(t, "data") /\ ValidPage(req[t])
         /\ req[t].page_number = 1
         /\ req[t].number_of_rows <= NRows(resp[t].saw))
            => resp[t].body = sample_response(resp[t].saw).body

\* C4 amended: the sample takes no limit and is the first 10 rows (all rows of a
\* shorter table); the first page of rowsPerPage <= RowCount rows equals it when
\* rowsPerPage = min(10, RowCount).
C4_PageOneIsSampleOfTen ==
    \A t \in Threads :
        (/\ AnsweredByView(t, "data") /\ ValidPage(req[t])
         /\ req[t].page_number = 1
         /\ req[t].number_of_rows <= NRows(resp[t].saw)
         /\ req[t].number_of_rows = Min(SampleSize, NRows(resp[t].saw)))
            => /\ resp[t].status = 200
               /\ resp[t].body = sample_response(resp[t].saw).body

\* the first page of 10 rows of a table of more than 10 rows has been answered
C4_Witness ==
    \E t \in Threads :
        /\ AnsweredByView(t, "data")
        /\ req[t].page_number = 1
        /\ req[t].number_of_rows = SampleSize
        /\ NRows(resp[t].saw) > SampleSize
        /\ Len(resp[t].body) = SampleSize

RECURSIVE SumOfCounts(_)
SumOfCounts(records) ==
    IF records = <<>> THEN 0 ELSE Head(records).count + SumOfCounts(Tail(records))

\* the rows of df whose Start_Time the parse turns into a year
ParsedRows(df) == {i \in 1..NRows(df) : ~IsNull(year_column(df)[i])}

\* C5: the yearly statistics of a loaded table hold one entry per distinct year,
\* strictly ascending by year, each with the number of rows of that year; the
\* counts add up to the number of rows whose timestamp parsed.
C5_YearlyStatsSortedAndComplete ==
    \A t \in Threads :
        AnsweredByView(t, "yearly_stats")
            => LET df == resp[t].saw
                   body == resp[t].body
                   years == year_column(df)
               IN  /\ resp[t].status = 200
                   /\ \A k \in 1..(Len(body) - 1) : body[k].year < body[k + 1].year
                   /\ \A k \in 1..Len(body) :
                          /\ body[k].count > 0
                          /\ body[k].count =
                                Cardinality({i \in ParsedRows(df) : years[i].n = body[k].year})
                   /\ \A i \in ParsedRows(df) :
                          \E k \in 1..Len(body) : body[k].year = years[i].n
                   /\ SumOfCounts(body) = Cardinality(ParsedRows(df))

\* statistics over several years, with a row dropped for its timestamp, were answered
C5_Witness ==
    \E t \in Threads :
        /\ AnsweredByView(t, "yearly_stats")
        /\ Len(resp[t].body) >= 2
        /\ Cardinality(ParsedRows(resp[t].saw)) < NRows(resp[t].saw)

\* the year the dual-encoding rule gives a Start_Time field: a numeral is epoch
\* seconds, a date its year; 0 when neither
DualYear(cell) ==
    IF cell.text = "int" THEN YearOfEpochSeconds(cell.n)
    ELSE IF cell.text = "date" THEN cell.n \div 10000
    ELSE 0

\* C6: the yearly statistics count every row under the year the dual-encoding rule
\* gives its timestamp (so the scenario table yields [{year: 2021, count: 3}]).
C6_DualEncodingYears ==
    \A t \in Threads :
        AnsweredByView(t, "yearly_stats")
            => LET body == resp[t].body
                   rows == csv.rows
                   dual == {i \in 1..Len(rows) : DualYear(rows[i].Start_Time) # 0}
               IN  /\ \A i \in dual :
                          \E k \in 1..Len(body) :
                              body[k].year = DualYear(rows[i].Start_Time)
                   /\ \A k \in 1..Len(body) :
                          body[k].count =
                              Cardinality({i \in dual :
                                  DualYear(rows[i].Start_Time) = body[k].year})
                   /\ (rows = ScenarioCsv => body = <<[year |-> 2021, count |-> 3]>>)

\* C7: once the load has succeeded, no step of any request changes the table or
\* unsets the gate, and two requests with the same arguments get the same answer.
C7_QueriesLeaveTableUnchanged ==
    /\ [][got_first_request => (ACCIDENTS_DF' = ACCIDENTS_DF /\ got_first_request')]_vars
    /\ [](\A t, u \in Threads :
            (/\ Answered(t) /\ Answered(u)
             /\ resp[t].by = "view" /\ resp[u].by = "view"
             /\ req[t] = req[u]) => resp[t] = resp[u])

\* after the load, two workers have both had the yearly statistics of a
\* non-empty table answered by the view
C7_Witness ==
    \E t, u \in Threads :
        /\ t # u
        /\ got_first_request
        /\ AnsweredByView(t, "yearly_stats") /\ AnsweredByView(u, "yearly_stats")
        /\ resp[t].status = 200
        /\ NRows(ACCIDENTS_DF) > 0

\* C8: whenever no load has succeeded and none is running, ACCIDENTS_DF is None.
C8_FailedLoadLeavesNone ==
    (~got_first_request /\ lock = NoThread) => ACCIDENTS_DF = None

\* C9: load_dataset_on_startup is entered at most once.
C9_LoadAtMostOnce == loadAttempts <= 1

\* C10: a view that finds ACCIDENTS_DF set finds the table of the complete load.
C10_ViewSeesFinalTable ==
    \A t \in Threads :
        (Answered(t) /\ resp[t].by = "view" /\ resp[t].saw.tag = "df")
            => resp[t].saw = FinalTable

\* a view has read a table that normalisation changed, while another request
\* waits at the lock it queued on during the load
C10_Witness ==
    \E t, u \in Threads :
        /\ t # u
        /\ Answered(t) /\ resp[t].by = "view" /\ resp[t].saw.tag = "df"
        /\ RawTable # FinalTable
        /\ pc[u] = "acquire"

=============================================================================
